---- MODULE Spec2Model ----
(***************************************************************************)
(* PX4FLOW optical-flow / sonar driver (px4flow.cpp): the poll cycle       *)
(* RunImpl = measure + collect, the decoding of the integral frame, the    *)
(* assembly of the sensor_optical_flow and distance_sensor reports and the *)
(* rescheduling policy, for a small set of driver instances.               *)
(*                                                                         *)
(* Floats are modelled as exact rationals <<num, den>> in lowest terms     *)
(* (den > 0); the rounding of the 32-bit float division is abstracted.     *)
(***************************************************************************)
EXTENDS Integers, Sequences, FiniteSets, TLC

(* ------------------------------ bounds --------------------------------- *)
\* number of concurrently running driver instances
NumInstances == 2
\* transport failures injected over all instances (bounds the com_err counters)
MaxCommsErrors == 2

Instances == 1..NumInstances

(* ------------------------- program constants --------------------------- *)
PX4FLOW_REG == 22
PX4FLOW_CONVERSION_INTERVAL_DEFAULT == 100000
PX4FLOW_CONVERSION_INTERVAL_MIN == 10000
PX4FLOW_CONVERSION_INTERVAL_MAX == 1000000
OK == 0
PX4_OK == 0
PX4_ERROR == -1
EIO == 5
I2C_FRAME_SIZE == 22
I2C_INTEGRAL_FRAME_SIZE == 25
ROTATION_NONE == 0
ROTATION_YAW_90 == 2
ROTATION_PITCH_270 == 25
MAV_DISTANCE_SENSOR_ULTRASOUND == 1

(* ------------------------------ floats --------------------------------- *)
Abs(n) == IF n < 0 THEN -n ELSE n

RECURSIVE GCD(_, _)
GCD(a, b) == IF b = 0 THEN a ELSE GCD(b, a % b)

\* n/g over d/g
Reduced(n, d, g) == <<n \div g, d \div g>>

\* the rational n/d in lowest terms, d > 0
Rat(n, d) == Reduced(n, d, GCD(Abs(n), d))

\* static_cast<float>(n) / d.f
FloatDiv(n, d) == Rat(n, d)

FloatNeg(q) == <<-q[1], q[2]>>

PX4FLOW_MAX_DISTANCE == Rat(50, 10)
\* variant: the minimum distance is the flow report's minimum ground distance
PX4FLOW_MIN_DISTANCE_GroundDistance == Rat(7, 10)

PX4FLOW_MIN_DISTANCE == Rat(3, 10)

\* the float literals of collect(): 0.0f, 2.5f, 0.7f, 3.f
ZeroFloat == Rat(0, 1)
MaxFlowRate == Rat(25, 10)
MinGroundDistance == Rat(7, 10)
MaxGroundDistance == Rat(3, 1)

(* ------------------------- integral frame ------------------------------ *)
\* value of a signed 16-bit field as the unsigned word the device sends
Word16(v) == IF v < 0 THEN v + 65536 ELSE v

LE16(u) == <<u % 256, (u \div 256) % 256>>

LE32(u) == <<u % 256, (u \div 256) % 256, (u \div 65536) % 256, (u \div 16777216) % 256>>

\* the bytes the device sends for an integral frame with the given fields
DeviceFrame(f) ==
    LE16(f.frame_count_since_last_readout)
    \o LE16(Word16(f.pixel_flow_x_integral))
    \o LE16(Word16(f.pixel_flow_y_integral))
    \o LE16(Word16(f.gyro_x_rate_integral))
    \o LE16(Word16(f.gyro_y_rate_integral))
    \o LE16(Word16(f.gyro_z_rate_integral))
    \o LE32(f.integration_timespan)
    \o LE32(f.sonar_timestamp)
    \o LE16(Word16(f.ground_distance))
    \o LE16(Word16(f.gyro_temperature))
    \o <<f.qual>>

\* reading the packed struct's fields out of its bytes (offsets from 0)
U16At(b, off) == b[off + 1] + 256 * b[off + 2]

S16At(b, off) == ((U16At(b, off) + 32768) % 65536) - 32768

U32At(b, off) == b[off + 1] + 256 * b[off + 2] + 65536 * b[off + 3] + 16777216 * b[off + 4]

pixel_flow_x_integral(b) == S16At(b, 2)
pixel_flow_y_integral(b) == S16At(b, 4)
gyro_x_rate_integral(b) == S16At(b, 6)
gyro_y_rate_integral(b) == S16At(b, 8)
gyro_z_rate_integral(b) == S16At(b, 10)
integration_timespan(b) == U32At(b, 12)
ground_distance(b) == S16At(b, 20)
qual(b) == b[25]

ZeroBytes(n) == [k \in 1..n |-> 0]

\* memcpy(dst, src, n): the first n bytes of src
Memcpy(src, n) == SubSeq(src, 1, n)

\* the frames the device answers with
RawFrames ==
    { [frame_count_since_last_readout |-> 1,
       pixel_flow_x_integral |-> 5000, pixel_flow_y_integral |-> -2500,
       gyro_x_rate_integral |-> 0, gyro_y_rate_integral |-> 0, gyro_z_rate_integral |-> 0,
       integration_timespan |-> 100000, sonar_timestamp |-> 0,
       ground_distance |-> 1500, gyro_temperature |-> 0, qual |-> 200],
      [frame_count_since_last_readout |-> 3,
       pixel_flow_x_integral |-> -1, pixel_flow_y_integral |-> 32767,
       gyro_x_rate_integral |-> -32768, gyro_y_rate_integral |-> 300, gyro_z_rate_integral |-> -7,
       integration_timespan |-> 70000, sonar_timestamp |-> 5,
       ground_distance |-> 300, gyro_temperature |-> -20, qual |-> 255] }

DeviceFrames == { DeviceFrame(f) : f \in RawFrames }

(* ----------------------------- rotation -------------------------------- *)
\* rotate_3f(rot, x, y, z) on the vector v = <<x, y, z>>
rotate_3f(rot, v) ==
    CASE rot = ROTATION_NONE -> v
      [] rot = ROTATION_YAW_90 -> <<FloatNeg(v[2]), v[1], v[3]>>
      [] rot = ROTATION_PITCH_270 -> <<FloatNeg(v[3]), v[2], v[1]>>
      [] OTHER -> v

\* the -R code each instance is started with (25 is the default)
ConfigRotation(i) == IF i % 2 = 1 THEN ROTATION_PITCH_270 ELSE ROTATION_YAW_90

(* ------------------------------- state --------------------------------- *)
VARIABLES
    config_rotation,   \* I2CSPIDriverConfig::rotation of each instance
    inited,            \* init() has been called on the instance
    _sonar_rotation,
    _sensor_rotation,
    _sensor_ok,
    _collect_phase,
    _comms_errors,     \* event count of the com_err perf counter
    failed_xfers,      \* measure() and frame-read transfers that returned an error
    _frame_integral,   \* bytes of the stored i2c_integral_frame
    sched,             \* the instance's scheduled work item
    dist_instance,     \* uORB instance of _distance_sensor_topic, -1 = not advertised
    last               \* what the most recent init() / RunImpl() did

vars == <<config_rotation, inited, _sonar_rotation, _sensor_rotation, _sensor_ok,
          _collect_phase, _comms_errors, failed_xfers, _frame_integral, sched,
          dist_instance, last>>

NotScheduled == [mode |-> "none", delay_us |-> 0]

\* ScheduleNow()
ScheduleNow == [mode |-> "now", delay_us |-> 0]

\* ScheduleDelayed(delay_us): the item runs once delay_us have passed
ScheduleDelayed(delay_us) == [mode |-> "delayed", delay_us |-> delay_us]

NoOp ==
    [op |-> "none", inst |-> 0, trigger |-> "none", ret |-> OK,
     measure_ret |-> OK, collect_ret |-> OK,
     val |-> <<>>, xfers |-> <<>>, out |-> <<>>, sched_calls |-> <<>>]

\* the work item after a run that made the given schedule calls: the run
\* took the item off the queue and the last call decides
Pending(calls) == IF calls = <<>> THEN NotScheduled ELSE calls[Len(calls)]

(* ---------------------------- constructor ------------------------------ *)
\* _sonar_rotation(config.rotation): narrowed to uint8_t
SonarRotationInit(rotation) == rotation % 256

\* variant: the vector rotation is taken from the configuration
SensorRotationInit_FromConfig(rotation) == rotation

\* _sensor_rotation(Rotation::ROTATION_NONE)
SensorRotationInit(rotation) == ROTATION_NONE

Init ==
    /\ config_rotation = [i \in Instances |-> ConfigRotation(i)]
    /\ inited = [i \in Instances |-> FALSE]
    /\ _sonar_rotation = [i \in Instances |-> SonarRotationInit(config_rotation[i])]
    /\ _sensor_rotation = [i \in Instances |-> SensorRotationInit(config_rotation[i])]
    /\ _sensor_ok = [i \in Instances |-> FALSE]
    /\ _collect_phase = [i \in Instances |-> FALSE]
    /\ _comms_errors = [i \in Instances |-> 0]
    /\ failed_xfers = [i \in Instances |-> 0]
    /\ _frame_integral = [i \in Instances |-> ZeroBytes(I2C_INTEGRAL_FRAME_SIZE)]
    /\ sched = [i \in Instances |-> NotScheduled]
    /\ dist_instance = [i \in Instances |-> -1]
    /\ last = NoOp

(* ----------------------------- transport ------------------------------- *)
RECURSIVE SumTo(_, _)
SumTo(f, n) == IF n = 0 THEN 0 ELSE f[n] + SumTo(f, n - 1)

\* what transfer() can return: OK or a negative errno; the buses fail only
\* while the com_err counts, `more` included, add up to less than the bound
TransferOutcomes(more) ==
    IF SumTo(_comms_errors, NumInstances) + more < MaxCommsErrors THEN {OK, -EIO} ELSE {OK}

\* 1 for a transfer that returned an error, 0 for one that returned OK
Failed(xfer_ret) == IF xfer_ret # OK THEN 1 ELSE 0

\* a transfer as it goes out on the bus: the bytes written and the number read
Transfer(send, recv_len) == [send |-> send, recv_len |-> recv_len]

\* DeviceId: get_device_id() with the devtype and the address overwritten
DeviceId(i) == [bus |-> i, devtype |-> "DRV_DIST_DEVTYPE_PX4FLOW", address |-> "get_i2c_address"]

(* ------------------------------ measure -------------------------------- *)
\* transfer(&cmd, 1, nullptr, 0) with cmd = PX4FLOW_REG
MeasureTransfer == Transfer(<<PX4FLOW_REG>>, 0)

\* variant: a failed measurement-start command is not counted
measure_NoCount(xfer_ret) ==
    IF OK # xfer_ret
    THEN [ret |-> xfer_ret, errors |-> 0]
    ELSE [ret |-> PX4_OK, errors |-> 0]

\* measure(), given what its transfer returned: the result and the com_err count
measure(xfer_ret) ==
    IF OK # xfer_ret
    THEN [ret |-> xfer_ret, errors |-> 1]
    ELSE [ret |-> PX4_OK, errors |-> 0]

(* ------------------------------ collect -------------------------------- *)
\* variant: the read of the frame followed by the integral frame is issued
CollectTransfers_FullFrame ==
    <<Transfer(<<>>, I2C_FRAME_SIZE + I2C_INTEGRAL_FRAME_SIZE)>>

\* the read collect() issues for the register the driver is built with
CollectTransfers ==
    (IF PX4FLOW_REG = 0
     THEN <<Transfer(<<>>, I2C_FRAME_SIZE + I2C_INTEGRAL_FRAME_SIZE)>> ELSE <<>>)
    \o (IF PX4FLOW_REG = 22
        THEN <<Transfer(<<>>, I2C_INTEGRAL_FRAME_SIZE)>> ELSE <<>>)

\* ret of collect() after the reads: -EIO unless a read was issued
CollectRet(xfer_ret) == IF CollectTransfers = <<>> THEN -EIO ELSE xfer_ret

\* uint8_t val[I2C_FRAME_SIZE + I2C_INTEGRAL_FRAME_SIZE] = {} after the read of rx
ValBuffer(rx) == rx \o ZeroBytes(I2C_FRAME_SIZE + I2C_INTEGRAL_FRAME_SIZE - Len(rx))

\* variant: the frame is taken from the buffer of the tick before, when that
\* tick read one
FrameIntegralOf_PreviousBuffer(val) ==
    IF last.op = "run" /\ last.collect_ret = OK
    THEN Memcpy(last.val, I2C_INTEGRAL_FRAME_SIZE)
    ELSE Memcpy(val, I2C_INTEGRAL_FRAME_SIZE)

\* the bytes memcpy'd into _frame_integral
FrameIntegralOf(val) ==
    IF PX4FLOW_REG = 0
    THEN SubSeq(val, I2C_FRAME_SIZE + 1, I2C_FRAME_SIZE + I2C_INTEGRAL_FRAME_SIZE)
    ELSE Memcpy(val, I2C_INTEGRAL_FRAME_SIZE)

\* variant: the integrals are scaled like the distance
FlowRadians_Milli(n) == FloatDiv(n, 1000)

\* static_cast<float>(integral) / 10000.f
FlowRadians(n) == FloatDiv(n, 10000)

\* static_cast<float>(ground_distance) / 1000.f
DistanceMeters(n) == FloatDiv(n, 1000)

\* the hrt_absolute_time() reads of collect(), in call order
FlowTimestampSample(reads) == reads[1]

FlowTimestamp(reads) == reads[2]

\* variant: the distance report reuses the flow report's sample timestamp
DistanceTimestamp_Sample(reads) == reads[1]

DistanceTimestamp(reads) == reads[3]

\* sensor_optical_flow_s report
FlowReport(frame, rot, devid, reads) ==
    LET zeroval == ZeroFloat
        \* pixel_flow[0], pixel_flow[1] and zeroval after rotate_3f
        pf == rotate_3f(rot, <<FlowRadians(pixel_flow_x_integral(frame)),
                               FlowRadians(pixel_flow_y_integral(frame)),
                               zeroval>>)
        da == rotate_3f(rot, <<FlowRadians(gyro_x_rate_integral(frame)),
                               FlowRadians(gyro_y_rate_integral(frame)),
                               FlowRadians(gyro_z_rate_integral(frame))>>)
    IN  [topic |-> "sensor_optical_flow",
         timestamp_sample |-> FlowTimestampSample(reads),
         device_id |-> devid,
         pixel_flow |-> SubSeq(pf, 1, 2),
         integration_timespan_us |-> integration_timespan(frame),
         quality |-> qual(frame),
         delta_angle_available |-> TRUE,
         delta_angle |-> da,
         max_flow_rate |-> MaxFlowRate,
         min_ground_distance |-> MinGroundDistance,
         max_ground_distance |-> MaxGroundDistance,
         timestamp |-> FlowTimestamp(reads)]

\* distance_sensor_s distance_report
DistanceReport(frame, sonar_rotation, devid, reads) ==
    [topic |-> "distance_sensor",
     device_id |-> devid,
     min_distance |-> PX4FLOW_MIN_DISTANCE,
     max_distance |-> PX4FLOW_MAX_DISTANCE,
     current_distance |-> DistanceMeters(ground_distance(frame)),
     variance |-> ZeroFloat,
     signal_quality |-> -1,
     type |-> MAV_DISTANCE_SENSOR_ULTRASOUND,
     orientation |-> sonar_rotation,
     timestamp |-> DistanceTimestamp(reads)]

\* PublicationMulti::get_instance(): advertises on the first call, which gives
\* the instance the lowest index no other instance of the topic holds
OrbGetInstance(handles, i) ==
    IF handles[i] >= 0
    THEN handles[i]
    ELSE CHOOSE n \in 0..NumInstances :
            /\ \A j \in Instances : handles[j] # n
            /\ \A m \in 0..(n - 1) : \E j \in Instances : handles[j] = m

\* variant: the distance report is published whatever the instance
PublishesDistance_Always(instance) == TRUE

\* variant: the instance test is inverted
PublishesDistance_NonPrimary(instance) == instance # 0

\* _distance_sensor_topic.get_instance() == 0
PublishesDistance(instance) == instance = 0

\* what collect() publishes after a successful read, in publish order
CollectOut(frame, rot, sonar_rotation, devid, instance, reads) ==
    <<FlowReport(frame, rot, devid, reads)>>
    \o (IF PublishesDistance(instance)
        THEN <<DistanceReport(frame, sonar_rotation, devid, reads)>>
        ELSE <<>>)

\* variant: the buffer is copied into the stored frame before the result of
\* the read is tested
collect_CopiesBeforeCheck(i, xfer_ret, rx, reads) ==
    LET val == ValBuffer(rx)
        ret == CollectRet(xfer_ret)
        frame == FrameIntegralOf(val)
        instance == OrbGetInstance(dist_instance, i)
    IN  IF ret < 0
        THEN [ret |-> ret, errors |-> 1, val |-> val,
              frame |-> frame, instance |-> dist_instance[i], out |-> <<>>]
        ELSE [ret |-> PX4_OK, errors |-> 0, val |-> val,
              frame |-> frame, instance |-> instance,
              out |-> CollectOut(frame, _sensor_rotation[i], _sonar_rotation[i],
                                 DeviceId(i), instance, reads)]

\* collect() of instance i, given what its read returned (rx: the bytes read)
\* and the clock reads: result, com_err count, stored frame, uORB instance
\* and the published reports
collect(i, xfer_ret, rx, reads) ==
    LET val == ValBuffer(rx)
        ret == CollectRet(xfer_ret)
        frame == FrameIntegralOf(val)
        instance == OrbGetInstance(dist_instance, i)
    IN  IF ret < 0
        THEN [ret |-> ret, errors |-> 1, val |-> val,
              frame |-> _frame_integral[i], instance |-> dist_instance[i], out |-> <<>>]
        ELSE [ret |-> PX4_OK, errors |-> 0, val |-> val,
              frame |-> frame, instance |-> instance,
              out |-> CollectOut(frame, _sensor_rotation[i], _sonar_rotation[i],
                                 DeviceId(i), instance, reads)]

(* --------------------------- start / RunImpl --------------------------- *)
\* variant: start() sets the collect-phase flag
CollectPhaseAtStart_Set == TRUE

\* start(): _collect_phase = false
CollectPhaseAtStart == FALSE

\* start(): its schedule call, ScheduleNow()
start == <<ScheduleNow>>

\* variant: a failed collect() waits for the interval like a successful one
RunImplSchedule_AlwaysDelayed(collect_ret) ==
    <<ScheduleDelayed(PX4FLOW_CONVERSION_INTERVAL_DEFAULT)>>

\* variant: the delayed run uses the minimum interval
RunImplSchedule_MinInterval(collect_ret) ==
    IF OK # collect_ret
    THEN start
    ELSE <<ScheduleDelayed(PX4FLOW_CONVERSION_INTERVAL_MIN)>>

\* variant: a failed collect() returns without calling start()
RunImplSchedule_NoRestart(collect_ret) ==
    IF OK # collect_ret
    THEN <<>>
    ELSE <<ScheduleDelayed(PX4FLOW_CONVERSION_INTERVAL_DEFAULT)>>

\* variant: once a transfer has failed, runs wait for the maximum interval
RunImplSchedule_BackoffAfterError(collect_ret) ==
    IF OK # collect_ret
    THEN start
    ELSE IF \E i \in Instances : _comms_errors[i] > 0
         THEN <<ScheduleDelayed(PX4FLOW_CONVERSION_INTERVAL_MAX)>>
         ELSE <<ScheduleDelayed(PX4FLOW_CONVERSION_INTERVAL_DEFAULT)>>

\* the schedule calls of RunImpl(), given what collect() returned
RunImplSchedule(collect_ret) ==
    IF OK # collect_ret
    THEN start
    ELSE <<ScheduleDelayed(PX4FLOW_CONVERSION_INTERVAL_DEFAULT)>>

\* hrt_absolute_time(): a read of the monotonic clock, given the previous read
\* (microseconds since the tick's first read)
ClockReads(t) == {t, t + 1}

RunImpl(i) ==
    /\ sched[i].mode \in {"now", "delayed"}
    /\ \E m_xfer \in TransferOutcomes(0) :
       \E m \in {measure(m_xfer)} :
           \E c_xfer \in TransferOutcomes(m.errors) :
           \E rx \in (IF c_xfer = OK THEN DeviceFrames
                      ELSE {ZeroBytes(I2C_INTEGRAL_FRAME_SIZE)}) :
           \E t2 \in (IF c_xfer = OK THEN ClockReads(0) ELSE {0}) :
           \E t3 \in (IF c_xfer = OK /\ PublishesDistance(OrbGetInstance(dist_instance, i))
                      THEN ClockReads(t2) ELSE {t2}) :
           \E c \in {collect(i, c_xfer, rx, <<0, t2, t3>>)} :
           \E calls \in {RunImplSchedule(c.ret)} :
               /\ _comms_errors' = [_comms_errors EXCEPT ![i] = @ + m.errors + c.errors]
               /\ failed_xfers' = [failed_xfers EXCEPT ![i] =
                                      @ + Failed(m_xfer) + Failed(c_xfer)]
               /\ _frame_integral' = [_frame_integral EXCEPT ![i] = c.frame]
               /\ dist_instance' = [dist_instance EXCEPT ![i] = c.instance]
               /\ _collect_phase' = [_collect_phase EXCEPT ![i] =
                                        IF OK # c.ret THEN CollectPhaseAtStart ELSE @]
               /\ sched' = [sched EXCEPT ![i] = Pending(calls)]
               /\ last' = [op |-> "run", inst |-> i, trigger |-> sched[i].mode,
                           ret |-> OK, measure_ret |-> m.ret, collect_ret |-> c.ret,
                           val |-> c.val,
                           xfers |-> <<MeasureTransfer>> \o CollectTransfers,
                           out |-> c.out, sched_calls |-> calls]
    /\ UNCHANGED <<config_rotation, inited, _sonar_rotation, _sensor_rotation, _sensor_ok>>

(* ---------------------------- probe / init ----------------------------- *)
\* transfer(nullptr, 0, &val[0], 22)
ProbeTransfer == Transfer(<<>>, 22)

\* variant: the measurement is started whatever the test read returned
probe_MeasuresAnyway(read_ret, m_xfer) ==
    [ret |-> IF read_ret # OK THEN -EIO ELSE measure(m_xfer).ret,
     errors |-> measure(m_xfer).errors,
     xfers |-> <<ProbeTransfer, MeasureTransfer>>]

\* probe(), given what its test read and the measure() transfer returned
probe(read_ret, m_xfer) ==
    IF read_ret # OK
    THEN [ret |-> -EIO, errors |-> 0, xfers |-> <<ProbeTransfer>>]
    ELSE [ret |-> measure(m_xfer).ret, errors |-> measure(m_xfer).errors,
          xfers |-> <<ProbeTransfer, MeasureTransfer>>]

\* I2C::init(): fails when probe() fails
I2CInit(probe_ret) == IF probe_ret # OK THEN probe_ret ELSE OK

init(i) ==
    /\ ~inited[i]
    /\ \E read_ret \in {OK, -EIO}, m_xfer \in {OK, -EIO} :
       \E p \in {probe(read_ret, m_xfer)} :
       \E ok \in {I2CInit(p.ret) = OK} :
       \E calls \in {IF ok THEN start ELSE <<>>} :
           /\ inited' = [inited EXCEPT ![i] = TRUE]
           /\ _comms_errors' = [_comms_errors EXCEPT ![i] = @ + p.errors]
           /\ failed_xfers' = [failed_xfers EXCEPT ![i] =
                                  @ + (IF read_ret = OK THEN Failed(m_xfer) ELSE 0)]
           /\ _sensor_ok' = [_sensor_ok EXCEPT ![i] = IF ok THEN TRUE ELSE @]
           /\ _collect_phase' = [_collect_phase EXCEPT ![i] =
                                    IF ok THEN CollectPhaseAtStart ELSE @]
           /\ sched' = [sched EXCEPT ![i] = IF calls = <<>> THEN @ ELSE Pending(calls)]
           /\ last' = [op |-> "init", inst |-> i, trigger |-> "none",
                       ret |-> IF ok THEN OK ELSE PX4_ERROR,
                       measure_ret |-> p.ret, collect_ret |-> OK,
                       val |-> <<>>, xfers |-> p.xfers, out |-> <<>>, sched_calls |-> calls]
    /\ UNCHANGED <<config_rotation, _sonar_rotation, _sensor_rotation, _frame_integral,
                   dist_instance>>

(* --------------------------- specification ----------------------------- *)
Next == \E i \in Instances : init(i) \/ RunImpl(i)

Spec == Init /\ [][Next]_vars

\* the work queue runs every item scheduled on it
FairSpec == Spec /\ \A i \in Instances : WF_vars(RunImpl(i))

(* ============================ properties =============================== *)
Flows(out) == SelectSeq(out, LAMBDA r : r.topic = "sensor_optical_flow")

Dists(out) == SelectSeq(out, LAMBDA r : r.topic = "distance_sensor")

\* a tick: the most recent operation was a run of RunImpl()
Ticked == last.op = "run"

\* a tick whose frame read succeeded
TickedOk == Ticked /\ last.collect_ret = OK

\* the device's frames, each with the bytes it is sent as
SentFrames == { <<DeviceFrame(f), f>> : f \in RawFrames }

\* the fields of the frame the device sent in the last tick's read
RawOf(val) ==
    (CHOOSE p \in SentFrames : p[1] = SubSeq(val, 1, I2C_INTEGRAL_FRAME_SIZE))[2]

\* q is the quotient n / d
IsQuotient(q, n, d) == q[2] > 0 /\ q[1] * d = n * q[2]

\* C1: a tick whose measurement-start command failed publishes nothing and is
\* followed by a run after the 100 ms interval, whatever the frame read returned
C1_MeasureFailureSkipsTick ==
    (Ticked /\ last.measure_ret # OK) =>
        /\ last.out = <<>>
        /\ sched[last.inst] = ScheduleDelayed(PX4FLOW_CONVERSION_INTERVAL_DEFAULT)

\* C2: a tick whose frame read failed publishes nothing and the next run is
\* scheduled immediately by the one ScheduleNow() of start(), never delayed,
\* in every state, so also after any number of consecutive read failures
C2_ReadFailureRestartsNow ==
    (Ticked /\ last.collect_ret # OK) =>
        /\ last.out = <<>>
        /\ last.sched_calls = <<ScheduleNow>>
        /\ sched[last.inst].mode = "now"
        /\ sched[last.inst].delay_us = 0

\* a second read failure in a row: the tick was started by the restart of the
\* failed tick before it and failed its read again
C2_Witness ==
    /\ Ticked /\ last.collect_ret # OK /\ last.measure_ret = OK
    /\ last.trigger = "now"
    /\ _comms_errors[last.inst] >= 2
    /\ sched[last.inst].mode = "now"

\* C3: a tick whose frame read succeeded publishes exactly one FlowSample and
\* schedules the next run after 100000 us, which lies in 10000..1000000; no
\* delayed run is ever scheduled with another interval
C3_OneFlowPerSuccessfulTick ==
    /\ TickedOk =>
        /\ Len(Flows(last.out)) = 1
        /\ last.sched_calls = <<ScheduleDelayed(100000)>>
        /\ sched[last.inst] = ScheduleDelayed(100000)
    /\ \A i \in Instances :
        sched[i].mode = "delayed" =>
            /\ sched[i].delay_us = 100000
            /\ sched[i].delay_us >= PX4FLOW_CONVERSION_INTERVAL_MIN
            /\ sched[i].delay_us <= PX4FLOW_CONVERSION_INTERVAL_MAX

C3_Witness ==
    /\ TickedOk
    /\ Len(Flows(last.out)) = 1
    /\ sched[last.inst].mode = "delayed"

\* C4: a tick publishes one DistanceSample when its frame read succeeded and
\* the instance holds index 0 of the distance topic, and none otherwise; in
\* both cases a successful tick publishes one FlowSample, first, with the
\* vectors, timespan and quality of the frame read
C4_DistanceOnlyFromPrimary ==
    Ticked =>
        /\ Len(Dists(last.out)) =
              (IF last.collect_ret = OK /\ dist_instance[last.inst] = 0 THEN 1 ELSE 0)
        /\ last.collect_ret = OK =>
              /\ Len(Flows(last.out)) = 1
              /\ last.out[1].topic = "sensor_optical_flow"
              /\ last.out[1].pixel_flow =
                    <<Rat(RawOf(last.val).pixel_flow_x_integral, 10000),
                      Rat(RawOf(last.val).pixel_flow_y_integral, 10000)>>
              /\ last.out[1].integration_timespan_us = RawOf(last.val).integration_timespan
              /\ last.out[1].quality = RawOf(last.val).qual

\* a successful tick of a non-primary instance: a FlowSample and nothing else
C4_Witness ==
    /\ TickedOk
    /\ dist_instance[last.inst] > 0
    /\ Len(last.out) = 1
    /\ last.out[1].topic = "sensor_optical_flow"

\* C5: at most one instance holds index 0 of the distance topic, and exactly
\* one once an instance has completed a successful cycle; a DistanceSample
\* comes from that instance only, from each of its successful ticks, and
\* every successful tick of every instance gives a FlowSample
C5_DedupLaw ==
    /\ Cardinality({i \in Instances : dist_instance[i] = 0}) <= 1
    /\ (\E i \in Instances : dist_instance[i] >= 0) =>
          Cardinality({i \in Instances : dist_instance[i] = 0}) = 1
    /\ Ticked =>
          /\ Dists(last.out) # <<>> => dist_instance[last.inst] = 0
          /\ (last.collect_ret = OK /\ dist_instance[last.inst] = 0) => Dists(last.out) # <<>>
          /\ last.collect_ret = OK => Flows(last.out) # <<>>

\* every instance has completed a successful cycle, the last one a
\* non-primary instance's: one instance is primary, the others are not
C5_Witness ==
    /\ \A i \in Instances : dist_instance[i] >= 0
    /\ TickedOk
    /\ dist_instance[last.inst] # 0
    /\ Dists(last.out) = <<>>
    /\ Flows(last.out) # <<>>

\* C6: a tick issues either the measurement-start command or the frame read,
\* never both, and a frame read only after a measurement-start command that
\* succeeded
C6_TickIsMeasureOrCollect ==
    Ticked =>
        /\ Len(last.xfers) = 1
        /\ ~(\E k \in 1..Len(last.xfers) : last.xfers[k].recv_len > 0) \/ last.measure_ret = OK

\* after every tick, whatever measure() and the frame read returned, the tick
\* has made one schedule call and one run is pending, now or after the interval
OneRunPending ==
    /\ Ticked =>
          /\ Len(last.sched_calls) = 1
          /\ sched[last.inst].mode \in {"now", "delayed"}
    /\ \A i \in Instances : _sensor_ok[i] => sched[i].mode \in {"now", "delayed"}

\* C7: no transport outcome stops the driver: one run is pending after every
\* tick, and an instance that was started (its sensor-ok flag is set and
\* stays set) runs infinitely often
C7_NeverStuck ==
    /\ []OneRunPending
    /\ \A i \in Instances : [](~_sensor_ok[i]) \/ []<><<RunImpl(i)>>_vars

\* a tick in which the measurement-start command and the frame read both
\* failed, with the next run pending
C7_Witness ==
    /\ Ticked
    /\ last.measure_ret # OK
    /\ last.collect_ret # OK
    /\ sched[last.inst].mode = "now"

\* the frame of the worked example
ExampleFrame ==
    [frame_count_since_last_readout |-> 1,
     pixel_flow_x_integral |-> 5000, pixel_flow_y_integral |-> -2500,
     gyro_x_rate_integral |-> 0, gyro_y_rate_integral |-> 0, gyro_z_rate_integral |-> 0,
     integration_timespan |-> 100000, sonar_timestamp |-> 0,
     ground_distance |-> 1500, gyro_temperature |-> 0, qual |-> 200]

\* C8: with the identity rotation the FlowSample of a successful tick is the
\* frame read scaled: pixel_flow and delta_angle are the integrals / 10000,
\* timespan and quality are the frame's, quality in 0..255, and a
\* DistanceSample carries ground_distance / 1000; the example frame gives
\* (0.5, -0.25), (0, 0, 0), 100000, 200 and 1.5 m
C8_ScaleLaw ==
    (TickedOk /\ _sensor_rotation[last.inst] = ROTATION_NONE) =>
        LET f == RawOf(last.val)
            flow == Flows(last.out)[1]
            dists == Dists(last.out)
        IN  /\ IsQuotient(flow.pixel_flow[1], f.pixel_flow_x_integral, 10000)
            /\ IsQuotient(flow.pixel_flow[2], f.pixel_flow_y_integral, 10000)
            /\ IsQuotient(flow.delta_angle[1], f.gyro_x_rate_integral, 10000)
            /\ IsQuotient(flow.delta_angle[2], f.gyro_y_rate_integral, 10000)
            /\ IsQuotient(flow.delta_angle[3], f.gyro_z_rate_integral, 10000)
            /\ flow.integration_timespan_us = f.integration_timespan
            /\ flow.quality = f.qual
            /\ flow.quality \in 0..255
            /\ \A k \in 1..Len(dists) :
                  IsQuotient(dists[k].current_distance, f.ground_distance, 1000)
            /\ f = ExampleFrame =>
                  /\ flow.pixel_flow = <<(<<1, 2>>), (<<-1, 4>>)>>
                  /\ flow.delta_angle = <<(<<0, 1>>), (<<0, 1>>), (<<0, 1>>)>>
                  /\ flow.integration_timespan_us = 100000
                  /\ flow.quality = 200
                  /\ \A k \in 1..Len(dists) : dists[k].current_distance = <<3, 2>>

\* the primary instance has read the example frame and published both records
C8_Witness ==
    /\ TickedOk
    /\ RawOf(last.val) = ExampleFrame
    /\ Len(last.out) = 2
    /\ last.out[1].pixel_flow = <<(<<1, 2>>), (<<-1, 4>>)>>
    /\ last.out[2].current_distance = <<3, 2>>

C10_TimestampOrder ==
    TickedOk =>
        /\ last.out[1].topic = "sensor_optical_flow"
        /\ last.out[1].timestamp_sample <= last.out[1].timestamp
        /\ \A k \in 1..Len(last.out) :
              last.out[k].topic = "distance_sensor" =>
                  /\ k > 1
                  /\ last.out[k].timestamp >= last.out[1].timestamp

\* the clock advanced between the three reads of a primary instance's tick
C10_Witness ==
    /\ TickedOk
    /\ Len(last.out) = 2
    /\ last.out[1].timestamp_sample < last.out[1].timestamp
    /\ last.out[1].timestamp < last.out[2].timestamp

\* a published record without its timestamps
NoTimestamps(r) == [k \in (DOMAIN r) \ {"timestamp", "timestamp_sample"} |-> r[k]]

\* the FlowSample fields that follow from the raw fields f of a frame and
\* the device identity of the instance
FlowOfBytes(f, devid) ==
    [topic |-> "sensor_optical_flow",
     device_id |-> devid,
     pixel_flow |-> <<Rat(f.pixel_flow_x_integral, 10000),
                      Rat(f.pixel_flow_y_integral, 10000)>>,
     integration_timespan_us |-> f.integration_timespan,
     quality |-> f.qual,
     delta_angle_available |-> TRUE,
     delta_angle |-> <<Rat(f.gyro_x_rate_integral, 10000),
                       Rat(f.gyro_y_rate_integral, 10000),
                       Rat(f.gyro_z_rate_integral, 10000)>>,
     max_flow_rate |-> <<5, 2>>,
     min_ground_distance |-> <<7, 10>>,
     max_ground_distance |-> <<3, 1>>]

\* the DistanceSample fields that follow from the raw fields f of a frame,
\* the device identity and the -R code of the instance
DistanceOfBytes(f, devid, rotation) ==
    [topic |-> "distance_sensor",
     device_id |-> devid,
     min_distance |-> <<3, 10>>,
     max_distance |-> <<5, 1>>,
     current_distance |-> Rat(f.ground_distance, 1000),
     variance |-> <<0, 1>>,
     signal_quality |-> -1,
     type |-> MAV_DISTANCE_SENSOR_ULTRASOUND,
     orientation |-> rotation]

\* C11: every successful frame read publishes, whatever the bytes read, and
\* the published records without their timestamps are a function of the bytes
\* read in the tick and of the instance's configuration (device identity, -R
\* code, primary or not) alone, so two ticks that read the same bytes give
\* the same records whatever was read or failed before them
C11_DecodingPureAndTotal ==
    TickedOk =>
        /\ Len(last.out) = (IF dist_instance[last.inst] = 0 THEN 2 ELSE 1)
        /\ NoTimestamps(last.out[1]) =
              FlowOfBytes(RawOf(last.val), DeviceId(last.inst))
        /\ \A k \in 2..Len(last.out) :
              NoTimestamps(last.out[k]) =
                 DistanceOfBytes(RawOf(last.val), DeviceId(last.inst),
                                 config_rotation[last.inst])

\* a successful tick of the primary instance that came after a successful
\* tick (it ran off the interval) and after a failed transfer of the same
\* instance, while the other instance holds a different frame
C11_Witness ==
    /\ TickedOk
    /\ last.trigger = "delayed"
    /\ _comms_errors[last.inst] >= 1
    /\ Len(last.out) = 2
    /\ \E j \in Instances :
          /\ j # last.inst
          /\ _frame_integral[j] # _frame_integral[last.inst]
          /\ _frame_integral[j] # ZeroBytes(I2C_INTEGRAL_FRAME_SIZE)

\* the com_err counts of a step: before, after
ErrorsBefore(i) == _comms_errors[i]

ErrorsAfter(i) == _comms_errors'[i]

\* C12: a tick adds to the instance's com_err count 1 for a failed
\* measurement-start command plus 1 for a failed frame read (0, 1 or 2), a
\* failed probe adds 1 only when its measurement-start command was sent and
\* failed, no step touches the count of another instance, and in every state
\* the count is the number of measure and frame-read transfers that failed
C12_ErrorCountLaw ==
    /\ [][LET i == last'.inst
              measure_failed == IF last'.measure_ret # OK THEN 1 ELSE 0
              read_failed == IF last'.collect_ret # OK THEN 1 ELSE 0
          IN  /\ last'.op = "run" =>
                    /\ ErrorsAfter(i) = ErrorsBefore(i) + measure_failed + read_failed
                    /\ (measure_failed = 1 /\ read_failed = 0) => ErrorsAfter(i) = ErrorsBefore(i) + 1
                    /\ (measure_failed = 0 /\ read_failed = 1) => ErrorsAfter(i) = ErrorsBefore(i) + 1
                    /\ (measure_failed = 1 /\ read_failed = 1) => ErrorsAfter(i) = ErrorsBefore(i) + 2
                    /\ (measure_failed = 0 /\ read_failed = 0) => ErrorsAfter(i) = ErrorsBefore(i)
              /\ last'.op = "init" =>
                    ErrorsAfter(i) = ErrorsBefore(i)
                        + (IF Len(last'.xfers) = 2 /\ last'.measure_ret # OK THEN 1 ELSE 0)
              /\ \A j \in Instances \ {i} : ErrorsAfter(j) = ErrorsBefore(j)]_vars
    /\ [](\A i \in Instances : _comms_errors[i] = failed_xfers[i])

\* a tick in which both transfers failed has taken the count from 0 to 2
C12_Witness ==
    /\ Ticked
    /\ last.measure_ret # OK
    /\ last.collect_ret # OK
    /\ _comms_errors[last.inst] = 2
    /\ failed_xfers[last.inst] = 2

\* the bytes of the frame read in the last tick
BytesRead == SubSeq(last.val, 1, I2C_INTEGRAL_FRAME_SIZE)

\* C13: a tick whose frame read failed leaves the stored integral frame as it
\* was and publishes nothing; a tick whose read succeeded replaces every byte
\* of the stored frame with the bytes just read, whatever it held, and every
\* value of the records it publishes is that of the bytes just read; no tick
\* touches the stored frame of another instance
C13_FrameFromSameTick ==
    /\ [][LET i == last'.inst
          IN  /\ (last'.op = "run" /\ last'.collect_ret # OK) =>
                    /\ _frame_integral'[i] = _frame_integral[i]
                    /\ last'.out = <<>>
              /\ (last'.op = "run" /\ last'.collect_ret = OK) =>
                    /\ Len(_frame_integral'[i]) = I2C_INTEGRAL_FRAME_SIZE
                    /\ \A k \in 1..I2C_INTEGRAL_FRAME_SIZE :
                          _frame_integral'[i][k] = last'.val[k]
              /\ \A j \in Instances \ {i} : _frame_integral'[j] = _frame_integral[j]]_vars
    /\ [](TickedOk =>
            /\ _frame_integral[last.inst] = BytesRead
            /\ \A k \in 1..Len(last.out) :
                  IF last.out[k].topic = "sensor_optical_flow"
                  THEN /\ last.out[k].pixel_flow =
                             <<Rat(S16At(BytesRead, 2), 10000), Rat(S16At(BytesRead, 4), 10000)>>
                       /\ last.out[k].delta_angle =
                             <<Rat(S16At(BytesRead, 6), 10000), Rat(S16At(BytesRead, 8), 10000),
                               Rat(S16At(BytesRead, 10), 10000)>>
                       /\ last.out[k].integration_timespan_us = U32At(BytesRead, 12)
                       /\ last.out[k].quality = BytesRead[25]
                  ELSE last.out[k].current_distance = Rat(S16At(BytesRead, 20), 1000))

\* a failed read after a successful one: nothing is published and the stored
\* frame is still the one of the earlier tick, not the empty buffer
C13_Witness ==
    /\ Ticked
    /\ last.collect_ret # OK
    /\ last.out = <<>>
    /\ _frame_integral[last.inst] # ZeroBytes(I2C_INTEGRAL_FRAME_SIZE)
    /\ _frame_integral[last.inst] # BytesRead

\* C14: a tick whose frame read failed changes nothing of the instance but
\* its com_err count and its schedule (the next run is immediate); a tick
\* whose frame read succeeded after transfers of the instance had failed, in
\* earlier ticks or in the measurement-start command of the same tick,
\* publishes one FlowSample, one DistanceSample when the instance is primary,
\* and schedules the next run after 100000 us
C14_RecoveryHasNoMemory ==
    [][LET i == last'.inst
       IN  last'.op = "run" =>
              /\ last'.collect_ret # OK =>
                    /\ _frame_integral' = _frame_integral
                    /\ dist_instance' = dist_instance
                    /\ _sensor_ok' = _sensor_ok
                    /\ _collect_phase' = _collect_phase
                    /\ _sensor_rotation' = _sensor_rotation
                    /\ _sonar_rotation' = _sonar_rotation
                    /\ sched'[i] = ScheduleNow
              /\ (last'.collect_ret = OK /\ _comms_errors'[i] > 0) =>
                    /\ Len(Flows(last'.out)) = 1
                    /\ Len(Dists(last'.out)) = (IF dist_instance'[i] = 0 THEN 1 ELSE 0)
                    /\ last'.sched_calls = <<ScheduleDelayed(100000)>>
                    /\ sched'[i] = ScheduleDelayed(100000)]_vars

\* the primary instance's first successful read after two failed transfers:
\* the tick was started by the restart of a failed tick, has published both
\* records and the next run waits for the interval
C14_Witness ==
    /\ TickedOk
    /\ last.measure_ret = OK
    /\ last.trigger = "now"
    /\ _comms_errors[last.inst] >= 2
    /\ Len(last.out) = 2
    /\ sched[last.inst] = ScheduleDelayed(PX4FLOW_CONVERSION_INTERVAL_DEFAULT)

Inited == last.op = "init"

\* C16: an instance has a run scheduled only once its init() has succeeded,
\* and an instance whose init() failed keeps its sensor-ok flag false and
\* never has a run scheduled. probe() first reads 22 bytes; when the
\* measurement-start command was not sent after it, probe() returned -EIO
\* and nothing was counted, and when it was sent probe() returned what the
\* command returned. init() returns OK exactly when probe() did, and then
\* the sensor-ok flag is set and the one schedule call is ScheduleNow();
\* otherwise it returns an error and makes no schedule call
C16_StartupGating ==
    /\ \A i \in Instances :
          /\ sched[i].mode # "none" => (inited[i] /\ _sensor_ok[i])
          /\ _sensor_ok[i] => inited[i]
          /\ (inited[i] /\ ~_sensor_ok[i]) => sched[i] = NotScheduled
    /\ Inited =>
          /\ last.xfers[1] = [send |-> <<>>, recv_len |-> 22]
          /\ Len(last.xfers) \in {1, 2}
          /\ Len(last.xfers) = 1 =>
                /\ last.measure_ret = -EIO
                /\ _comms_errors[last.inst] = 0
          /\ Len(last.xfers) = 2 =>
                /\ last.xfers[2] = [send |-> <<PX4FLOW_REG>>, recv_len |-> 0]
                /\ \/ last.measure_ret = OK /\ _comms_errors[last.inst] = 0
                   \/ last.measure_ret < 0 /\ _comms_errors[last.inst] = 1
          /\ last.ret = OK <=> last.measure_ret = OK
          /\ last.ret = OK =>
                /\ _sensor_ok[last.inst]
                /\ last.sched_calls = <<ScheduleNow>>
                /\ sched[last.inst] = ScheduleNow
          /\ last.ret # OK =>
                /\ last.ret < 0
                /\ ~_sensor_ok[last.inst]
                /\ last.sched_calls = <<>>
                /\ sched[last.inst] = NotScheduled

\* an init() that failed because the measurement-start command of probe()
\* failed, while another instance is started and polling: the failed
\* instance is not scheduled
C16_Witness ==
    /\ Inited
    /\ last.ret # OK
    /\ Len(last.xfers) = 2
    /\ _comms_errors[last.inst] = 1
    /\ sched[last.inst] = NotScheduled
    /\ \E j \in Instances :
          /\ j # last.inst
          /\ _sensor_ok[j]
          /\ sched[j].mode = "delayed"

\* C17: whatever frame was read, every published FlowSample has
\* delta_angle_available = true, max_flow_rate = 5/2, min_ground_distance =
\* 7/10 and max_ground_distance = 3, every published DistanceSample has
\* min_distance = 3/10, max_distance = 5, variance = 0, signal_quality = -1
\* and type ultrasound, and the records of one tick carry the same device
\* identity, that of the instance
C17_FixedConstants ==
    Ticked =>
        /\ \A k \in 1..Len(last.out) :
              /\ last.out[k].topic \in {"sensor_optical_flow", "distance_sensor"}
              /\ last.out[k].topic = "sensor_optical_flow" =>
                    /\ last.out[k].delta_angle_available = TRUE
                    /\ last.out[k].max_flow_rate = <<5, 2>>
                    /\ last.out[k].min_ground_distance = <<7, 10>>
                    /\ last.out[k].max_ground_distance = <<3, 1>>
              /\ last.out[k].topic = "distance_sensor" =>
                    /\ last.out[k].min_distance = <<3, 10>>
                    /\ last.out[k].max_distance = <<5, 1>>
                    /\ last.out[k].variance = <<0, 1>>
                    /\ last.out[k].signal_quality = -1
                    /\ last.out[k].type = MAV_DISTANCE_SENSOR_ULTRASOUND
        /\ \A k, n \in 1..Len(last.out) :
              /\ last.out[k].device_id = last.out[n].device_id
              /\ last.out[k].device_id.bus = last.inst
              /\ last.out[k].device_id.devtype = "DRV_DIST_DEVTYPE_PX4FLOW"

\* the primary instance has published both records for a frame other than
\* the example frame, the one with the extreme field values
C17_Witness ==
    /\ TickedOk
    /\ Len(last.out) = 2
    /\ RawOf(last.val) # ExampleFrame
    /\ last.out[1].quality = 255
    /\ last.out[1].max_flow_rate = <<5, 2>>
    /\ last.out[2].min_distance = <<3, 10>>
    /\ last.out[1].device_id = last.out[2].device_id

\* C18: the collect-phase flag of every instance is false in every reachable
\* state: it is false after construction and the one assignment to it, in
\* start(), stores false
C18_CollectPhaseDead ==
    \A i \in Instances : _collect_phase[i] = FALSE

\* start() has run twice for an instance, from init() and again from a tick
\* whose frame read failed, and the instance's flag is false
C18_Witness ==
    /\ Ticked
    /\ last.collect_ret # OK
    /\ last.sched_calls = <<ScheduleNow>>
    /\ _sensor_ok[last.inst]
    /\ _collect_phase[last.inst] = FALSE
    /\ \E j \in Instances : j # last.inst /\ sched[j].mode = "delayed"

====
